---- MODULE Spec2Model ----
(***************************************************************************)
(* RISC-V backend of the IR JIT: compilation of the vector IR opcodes      *)
(* (Core/MIPS/RiscV/RiscVCompVec.cpp).                                     *)
(*                                                                         *)
(* A block of IR instructions is compiled one instruction at a time.  A    *)
(* CompIR_Vec routine first talks to the FPU register cache (fpr) and      *)
(* then emits host instructions.  The emitted code is afterwards executed  *)
(* on a host machine with float registers f and integer registers x.       *)
(***************************************************************************)
EXTENDS Integers, Sequences, FiniteSets, TLC

\* Highest guest float register number used by the model.
MaxReg == 8
\* Largest per-byte stride of the bit patterns fed to the bit-level opcodes.
MaxStep == 1

NOT_FOUND == 4
XLEN == 64

Lanes == 0..3
Regs == 0..MaxReg
\* First registers of 4-lane groups that fit in Regs.
Bases == 0..(MaxReg - 3)
\* Host register returned by Map4DirtyInTemp; one past the registers
\* that hold guest lanes.
TempReg == MaxReg + 1
FRegs == 0..TempReg
XRegs == {"SCRATCH1", "SCRATCH2", "R_ZERO"}

VARIABLES
    block,        \* the IR instructions of the block being compiled
    irIndex,      \* index in block of the next IR instruction to compile
    inst,         \* IR instruction of the routine being (or last) compiled
    pc,           \* "idle" between routines, "routine" inside one, "crash"
    calls,        \* fpr calls the running routine has still to make
    lock,         \* register cache: spill-lock count per guest register
    peak,         \* highest spill-lock count seen in the current routine
    mapIssued,    \* a fpr.MapReg call was made in the current routine
    lockAfterMap, \* a fpr.SpillLock call followed a fpr.MapReg call
    badRelease,   \* a lock that was not held was released
    code,         \* host instructions emitted so far
    ip,           \* index in code of the next host instruction to execute
    f,            \* host float registers (guest lanes and tempReg)
    f0,           \* contents of f before the block runs
    x,            \* host integer registers
    written,      \* float registers written by the executed code
    zbb,          \* cpu_info.RiscV_Zbb
    i,            \* in-place shuffle: loop counter
    state,        \* in-place shuffle: state[]
    goal,         \* in-place shuffle: goal[]
    chains,       \* in-place shuffle: lanes and rotate of the moveChained calls
    assertFailed  \* _assert_(foundIn != NOT_FOUND) fired

vars == <<block, irIndex, inst, pc, calls, lock, peak, mapIssued, lockAfterMap,
          badRelease, code, ip, f, f0, x, written, zbb, i, state, goal,
          chains, assertFailed>>

----------------------------------------------------------------------------
(* Bit patterns.  A w-bit pattern is a function from 0..w-1 to {0,1}, bit 0 *)
(* the least significant.                                                   *)

BitOf(n, k) == (n \div (2 ^ k)) % 2

Zero32 == [k \in 0..31 |-> 0]
Zero64 == [k \in 0..(XLEN - 1) |-> 0]

\* The 32-bit pattern whose byte j (j = 0 the lowest) is bytes[j].
WordOfBytes(bytes) == [k \in 0..31 |-> BitOf(bytes[k \div 8], k % 8)]

\* Byte j of a 32-bit pattern, as a number.
ByteOf(w, j) ==
    w[8*j] + 2*w[8*j+1] + 4*w[8*j+2] + 8*w[8*j+3]
    + 16*w[8*j+4] + 32*w[8*j+5] + 64*w[8*j+6] + 128*w[8*j+7]

\* A non-negative immediate as a 64-bit pattern.
Imm64(n) == [k \in 0..(XLEN - 1) |-> IF k < 12 THEN BitOf(n, k) ELSE 0]

SignExtend32(w) == [k \in 0..(XLEN - 1) |-> IF k < 32 THEN w[k] ELSE w[31]]
Low32(v) == [k \in 0..31 |-> v[k]]

SRLI64(v, sh) == [k \in 0..(XLEN - 1) |-> IF k + sh <= XLEN - 1 THEN v[k + sh] ELSE 0]
SLLI64(v, sh) == [k \in 0..(XLEN - 1) |-> IF k >= sh THEN v[k - sh] ELSE 0]
SRAIW64(v, sh) ==
    SignExtend32([k \in 0..31 |-> IF k + sh <= 31 THEN v[k + sh] ELSE v[31]])
AND64(a, b) == [k \in 0..(XLEN - 1) |-> a[k] * b[k]]
OR64(a, b) == [k \in 0..(XLEN - 1) |-> IF a[k] + b[k] > 0 THEN 1 ELSE 0]
NOT64(a) == [k \in 0..(XLEN - 1) |-> 1 - a[k]]

----------------------------------------------------------------------------
(* Host instructions.  Float register operands are numbers (the host       *)
(* register of guest register r is numbered r), integer register operands  *)
(* are names.  Unused operands are 0.                                      *)

Ins(op, rd, rs1, rs2, rs3, imm) ==
    [op |-> op, rd |-> rd, rs1 |-> rs1, rs2 |-> rs2, rs3 |-> rs3, imm |-> imm]

\* fpr.R(r): the host register a mapped guest register lives in.
R(r) == r

FMV(rd, rs) == Ins("FMV.S", rd, rs, 0, 0, 0)
FMV_X_W(xd, fs) == Ins("FMV.X.W", xd, fs, 0, 0, 0)
FMV_W_X(fd, xs) == Ins("FMV.W.X", fd, xs, 0, 0, 0)
FCVT_S_W(fd, xs) == Ins("FCVT.S.W", fd, xs, 0, 0, 0)
LI(xd, imm) == Ins("LI", xd, 0, 0, 0, imm)
FMUL(rd, rs1, rs2) == Ins("FMUL.S", rd, rs1, rs2, 0, 0)
FMADD(rd, rs1, rs2, rs3) == Ins("FMADD.S", rd, rs1, rs2, rs3, 0)
SRLI(xd, xs, sh) == Ins("SRLI", xd, xs, 0, 0, sh)
SLLI(xd, xs, sh) == Ins("SLLI", xd, xs, 0, 0, sh)
SRLIW(xd, xs, sh) == Ins("SRLIW", xd, xs, 0, 0, sh)
SRAIW(xd, xs, sh) == Ins("SRAIW", xd, xs, 0, 0, sh)
ANDI(xd, xs, imm) == Ins("ANDI", xd, xs, 0, 0, imm)
AND(xd, xs1, xs2) == Ins("AND", xd, xs1, xs2, 0, 0)
OR(xd, xs1, xs2) == Ins("OR", xd, xs1, xs2, 0, 0)
NOT(xd, xs) == Ins("NOT", xd, xs, 0, 0, 0)
ANDN(xd, xs1, xs2) == Ins("ANDN", xd, xs1, xs2, 0, 0)
\* The code CompIR_Generic emits: a call into the IR interpreter.
GENERIC(ir) == Ins("GENERIC", 0, 0, 0, 0, ir.op)

\* Float registers an instruction writes.
FWrites(ins) ==
    IF ins.op \in {"FMV.S", "FMV.W.X", "FCVT.S.W", "FADD.S", "FSUB.S", "FMUL.S",
                   "FDIV.S", "FMADD.S", "FNEG.S", "FABS.S"}
    THEN {ins.rd} ELSE {}

\* One host instruction executed on machine m = [f, x].  Float arithmetic
\* is exact arithmetic on numbers; moves and integer instructions act on
\* whatever the registers hold.
Step(m, ins) ==
    CASE ins.op = "FMV.S" -> [m EXCEPT !.f[ins.rd] = m.f[ins.rs1]]
      [] ins.op = "FMV.X.W" -> [m EXCEPT !.x[ins.rd] = SignExtend32(m.f[ins.rs1])]
      [] ins.op = "FMV.W.X" -> [m EXCEPT !.f[ins.rd] = Low32(m.x[ins.rs1])]
      [] ins.op = "FMUL.S" -> [m EXCEPT !.f[ins.rd] = m.f[ins.rs1] * m.f[ins.rs2]]
      [] ins.op = "FMADD.S" ->
            [m EXCEPT !.f[ins.rd] = m.f[ins.rs1] * m.f[ins.rs2] + m.f[ins.rs3]]
      [] ins.op = "SRLI" -> [m EXCEPT !.x[ins.rd] = SRLI64(m.x[ins.rs1], ins.imm)]
      [] ins.op = "SLLI" -> [m EXCEPT !.x[ins.rd] = SLLI64(m.x[ins.rs1], ins.imm)]
      [] ins.op = "SRAIW" -> [m EXCEPT !.x[ins.rd] = SRAIW64(m.x[ins.rs1], ins.imm)]
      [] ins.op = "ANDI" -> [m EXCEPT !.x[ins.rd] = AND64(m.x[ins.rs1], Imm64(ins.imm))]
      [] ins.op = "AND" -> [m EXCEPT !.x[ins.rd] = AND64(m.x[ins.rs1], m.x[ins.rs2])]
      [] ins.op = "OR" -> [m EXCEPT !.x[ins.rd] = OR64(m.x[ins.rs1], m.x[ins.rs2])]
      [] ins.op = "NOT" -> [m EXCEPT !.x[ins.rd] = NOT64(m.x[ins.rs1])]
      [] ins.op = "ANDN" -> [m EXCEPT !.x[ins.rd] = AND64(m.x[ins.rs1], NOT64(m.x[ins.rs2]))]

\* A whole instruction sequence executed on machine m.
RECURSIVE Run(_, _)
Run(m, cs) == IF cs = <<>> THEN m ELSE Run(Step(m, Head(cs)), Tail(cs))

----------------------------------------------------------------------------
(* IR instructions and the calls a routine makes to the register cache.    *)

IRInst(op, dest, src1, src2, constant) ==
    [op |-> op, dest |-> dest, src1 |-> src1, src2 |-> src2, constant |-> constant]

Call(fn, args, noinit) == [fn |-> fn, args |-> args, noinit |-> noinit]
SpillLock(r) == Call("SpillLock", <<r>>, FALSE)
ReleaseSpillLock(r) == Call("ReleaseSpillLock", <<r>>, FALSE)
ReleaseSpillLocksAndDiscardTemps == Call("ReleaseSpillLocksAndDiscardTemps", <<>>, FALSE)
MapReg(r) == Call("MapReg", <<r>>, FALSE)
MapRegNoInit(r) == Call("MapReg", <<r>>, TRUE)
Map4DirtyIn(rd, rs) == Call("Map4DirtyIn", <<rd, rs>>, FALSE)
Map4DirtyInIn(rd, rs, rt) == Call("Map4DirtyInIn", <<rd, rs, rt>>, FALSE)
Map4DirtyInTemp(rd, rs) == Call("Map4DirtyInTemp", <<rd, rs>>, FALSE)
MapDirtyInIn(rd, rs, rt) == Call("MapDirtyInIn", <<rd, rs, rt>>, FALSE)

\* for (int i = 0; i < 4; ++i): the code or calls of the four iterations,
\* body[k] being those of iteration k, one after the other.
For4(body) == body[0] \o body[1] \o body[2] \o body[3]

\* What a routine does for one instruction: the fpr calls it makes, the
\* host code it emits after them, and whether the code comes from the
\* in-place shuffle loop instead.
Routine(cs, emitted, inloop) == [calls |-> cs, code |-> emitted, loop |-> inloop]

----------------------------------------------------------------------------
(* CompIR_VecAssign                                                        *)

Vec4Init_Calls(ir) ==
    For4([k \in Lanes |-> <<SpillLock(ir.dest + k)>>])
    \o For4([k \in Lanes |-> <<MapRegNoInit(ir.dest + k)>>])
    \o For4([k \in Lanes |-> <<ReleaseSpillLock(ir.dest + k)>>])

\* Set_1000 .. Set_0001: 1.0f in lane one, zero in the others.
Vec4Init_Set(ir, one) ==
    <<LI("SCRATCH1", "1.0f")>>
    \o For4([k \in Lanes |-> IF k = one
                       THEN <<FMV_W_X(R(ir.dest + k), "SCRATCH1")>>
                       ELSE <<FCVT_S_W(R(ir.dest + k), "R_ZERO")>>])

\* AllONE, AllMinusONE: the constant in lane 0, copied to lanes 1..3.
Vec4Init_All(ir, constant) ==
    <<LI("SCRATCH1", constant), FMV_W_X(R(ir.dest), "SCRATCH1"),
      FMV(R(ir.dest + 1), R(ir.dest)), FMV(R(ir.dest + 2), R(ir.dest)),
      FMV(R(ir.dest + 3), R(ir.dest))>>

Vec4Init_Code(ir) ==
    CASE ir.src1 = "AllZERO" -> For4([k \in Lanes |-> <<FCVT_S_W(R(ir.dest + k), "R_ZERO")>>])
      [] ir.src1 = "AllONE" -> Vec4Init_All(ir, "1.0f")
      [] ir.src1 = "AllMinusONE" -> Vec4Init_All(ir, "-1.0f")
      [] ir.src1 = "Set_1000" -> Vec4Init_Set(ir, 0)
      [] ir.src1 = "Set_0100" -> Vec4Init_Set(ir, 1)
      [] ir.src1 = "Set_0010" -> Vec4Init_Set(ir, 2)
      [] ir.src1 = "Set_0001" -> Vec4Init_Set(ir, 3)

\* goal[]: the source lane each destination lane must end up with.
Goal(src2) == [k \in Lanes |-> (src2 \div (2 ^ (2 * k))) % 4]

\* state[] at the start of the in-place shuffle.
StateInit == [k \in Lanes |-> k]

\* findIndex that searches the whole array whatever start is.
findIndex_NoStart(arr, val, start) ==
    IF \E k \in 0..3 : arr[k] = val
    THEN CHOOSE k \in 0..3 : arr[k] = val /\ \A j \in 0..(k - 1) : arr[j] # val
    ELSE NOT_FOUND

\* std::find(arr + start, arr + 4, val) - arr
findIndex(arr, val, start) ==
    IF \E k \in start..3 : arr[k] = val
    THEN CHOOSE k \in start..3 : arr[k] = val /\ \A j \in start..(k - 1) : arr[j] # val
    ELSE NOT_FOUND

\* The loop of moveChained on state[]: state[lanes[k-1]] = state[lanes[k]],
\* in order (lanes is 1-based here).
RECURSIVE ChainState(_, _, _)
ChainState(st, lanes, k) ==
    IF k > Len(lanes) THEN st
    ELSE ChainState([st EXCEPT ![lanes[k - 1]] = st[lanes[k]]], lanes, k + 1)

\* moveChained that reads state[lanes.front()] only after the moves.
moveChained_StaleFirst(st, dest, lanes, rotate) ==
    LET last == lanes[Len(lanes)]
        moved == ChainState(st, lanes, 2)
    IN [state |-> IF rotate THEN [moved EXCEPT ![last] = moved[lanes[1]]] ELSE moved,
        code |-> (IF rotate THEN <<FMV(TempReg, R(dest + lanes[1]))>> ELSE <<>>)
                 \o [k \in 1..(Len(lanes) - 1) |->
                        FMV(R(dest + lanes[k]), R(dest + lanes[k + 1]))]
                 \o (IF rotate THEN <<FMV(R(dest + last), TempReg)>> ELSE <<>>)]

\* moveChained that goes through tempReg whatever rotate is.
moveChained_AlwaysRotate(st, dest, lanes, rotate) ==
    LET firstState == st[lanes[1]]
        last == lanes[Len(lanes)]
        moved == ChainState(st, lanes, 2)
    IN [state |-> [moved EXCEPT ![last] = firstState],
        code |-> <<FMV(TempReg, R(dest + lanes[1]))>>
                 \o [k \in 1..(Len(lanes) - 1) |->
                        FMV(R(dest + lanes[k]), R(dest + lanes[k + 1]))]
                 \o <<FMV(R(dest + last), TempReg)>>]

\* moveChained(lanes, rotate): the new state[] and the FMVs emitted.
moveChained(st, dest, lanes, rotate) ==
    LET firstState == st[lanes[1]]
        last == lanes[Len(lanes)]
        moved == ChainState(st, lanes, 2)
    IN [state |-> IF rotate THEN [moved EXCEPT ![last] = firstState] ELSE moved,
        code |-> (IF rotate THEN <<FMV(TempReg, R(dest + lanes[1]))>> ELSE <<>>)
                 \o [k \in 1..(Len(lanes) - 1) |->
                        FMV(R(dest + lanes[k]), R(dest + lanes[k + 1]))]
                 \o (IF rotate THEN <<FMV(R(dest + last), TempReg)>> ELSE <<>>)]

\* A loop body that always swaps lane n with the lane its goal is found in.
ShuffleChain_AlwaysSwap(st, gl, n) ==
    [lanes |-> <<n, findIndex(st, gl[n], 0)>>, rotate |-> TRUE]

\* The chain the loop body picks for lane n when goal[n] # state[n] and
\* foundIn was found: the arguments of its moveChained call.
ShuffleChain(st, gl, n) ==
    LET neededBy == findIndex(gl, st[n], n + 1)
        foundIn == findIndex(st, gl[n], 0)
    IN IF neededBy = NOT_FOUND \/ neededBy = foundIn
       THEN [lanes |-> <<n, foundIn>>, rotate |-> neededBy = foundIn]
       ELSE LET neededByDepth2 == findIndex(gl, st[neededBy], n + 1)
            IN IF neededByDepth2 = NOT_FOUND \/ neededByDepth2 = foundIn
               THEN [lanes |-> <<neededBy, n, foundIn>>,
                     rotate |-> neededByDepth2 = foundIn]
               ELSE LET neededByDepth3 == findIndex(gl, st[neededByDepth2], n + 1)
                    IN [lanes |-> <<neededByDepth2, neededBy, n, foundIn>>,
                        rotate |-> neededByDepth3 = foundIn]

\* dest == src1: the code comes from the in-place loop.
InPlaceShuffle(ir) == ir.op = "Vec4Shuffle" /\ ir.dest = ir.src1

Vec4Shuffle_Direct(ir) ==
    For4([k \in Lanes |-> LET lane == (ir.src2 \div (2 ^ (k * 2))) % 4
                    IN <<FMV(R(ir.dest + k), R(ir.src1 + lane))>>])

\* Vec4Blend with the two sources taken the wrong way round.
Vec4Blend_Code_Inverted(ir) ==
    For4([k \in Lanes |-> LET which == (ir.constant \div (2 ^ k)) % 2
                    IN <<FMV(R(ir.dest + k),
                             R((IF which # 0 THEN ir.src1 ELSE ir.src2) + k))>>])

Vec4Blend_Code(ir) ==
    For4([k \in Lanes |-> LET which == (ir.constant \div (2 ^ k)) % 2
                    IN <<FMV(R(ir.dest + k),
                             R((IF which # 0 THEN ir.src2 ELSE ir.src1) + k))>>])

Vec4Mov_Code(ir) == For4([k \in Lanes |-> <<FMV(R(ir.dest + k), R(ir.src1 + k))>>])

CompIR_VecAssign(ir) ==
    CASE ir.op = "Vec4Init" -> Routine(Vec4Init_Calls(ir), Vec4Init_Code(ir), FALSE)
      [] ir.op = "Vec4Shuffle" ->
            IF ir.dest = ir.src1
            THEN Routine(<<Map4DirtyInTemp(ir.dest, ir.src1)>>, <<>>, TRUE)
            ELSE Routine(<<Map4DirtyIn(ir.dest, ir.src1)>>, Vec4Shuffle_Direct(ir), FALSE)
      [] ir.op = "Vec4Blend" ->
            Routine(<<Map4DirtyInIn(ir.dest, ir.src1, ir.src2)>>, Vec4Blend_Code(ir), FALSE)
      [] ir.op = "Vec4Mov" ->
            Routine(<<Map4DirtyIn(ir.dest, ir.src1)>>, Vec4Mov_Code(ir), FALSE)

----------------------------------------------------------------------------
(* CompIR_VecArith                                                         *)

\* Vec4Add, Vec4Sub, Vec4Mul, Vec4Div: one binary instruction per lane.
Vec4Binary_Code(ir, op) ==
    For4([k \in Lanes |-> <<Ins(op, R(ir.dest + k), R(ir.src1 + k), R(ir.src2 + k), 0, 0)>>])

\* Vec4Neg, Vec4Abs: one unary instruction per lane.
Vec4Unary_Code(ir, op) ==
    For4([k \in Lanes |-> <<Ins(op, R(ir.dest + k), R(ir.src1 + k), 0, 0, 0)>>])

Vec4Scale_Calls(ir) ==
    <<SpillLock(ir.src2), MapReg(ir.src2), Map4DirtyIn(ir.dest, ir.src1),
      ReleaseSpillLock(ir.src2)>>

Vec4Scale_Code(ir) ==
    For4([k \in Lanes |-> <<FMUL(R(ir.dest + k), R(ir.src1 + k), R(ir.src2))>>])

CompIR_VecArith(ir) ==
    CASE ir.op = "Vec4Add" ->
            Routine(<<Map4DirtyInIn(ir.dest, ir.src1, ir.src2)>>, Vec4Binary_Code(ir, "FADD.S"), FALSE)
      [] ir.op = "Vec4Sub" ->
            Routine(<<Map4DirtyInIn(ir.dest, ir.src1, ir.src2)>>, Vec4Binary_Code(ir, "FSUB.S"), FALSE)
      [] ir.op = "Vec4Mul" ->
            Routine(<<Map4DirtyInIn(ir.dest, ir.src1, ir.src2)>>, Vec4Binary_Code(ir, "FMUL.S"), FALSE)
      [] ir.op = "Vec4Div" ->
            Routine(<<Map4DirtyInIn(ir.dest, ir.src1, ir.src2)>>, Vec4Binary_Code(ir, "FDIV.S"), FALSE)
      [] ir.op = "Vec4Scale" -> Routine(Vec4Scale_Calls(ir), Vec4Scale_Code(ir), FALSE)
      [] ir.op = "Vec4Neg" ->
            Routine(<<Map4DirtyIn(ir.dest, ir.src1)>>, Vec4Unary_Code(ir, "FNEG.S"), FALSE)
      [] ir.op = "Vec4Abs" ->
            Routine(<<Map4DirtyIn(ir.dest, ir.src1)>>, Vec4Unary_Code(ir, "FABS.S"), FALSE)

----------------------------------------------------------------------------
(* CompIR_VecHoriz                                                         *)

\* Vec4Dot that never releases the lock on dest.
Vec4Dot_Calls_NoDestRelease(ir) ==
    <<SpillLock(ir.dest)>>
    \o For4([k \in Lanes |-> <<SpillLock(ir.src1 + k), SpillLock(ir.src2 + k)>>])
    \o For4([k \in Lanes |-> <<MapReg(ir.src1 + k), MapReg(ir.src2 + k)>>])
    \o <<MapRegNoInit(ir.dest)>>
    \o For4([k \in Lanes |-> <<ReleaseSpillLock(ir.src1 + k), ReleaseSpillLock(ir.src2 + k)>>])

Vec4Dot_Calls(ir) ==
    <<SpillLock(ir.dest)>>
    \o For4([k \in Lanes |-> <<SpillLock(ir.src1 + k), SpillLock(ir.src2 + k)>>])
    \o For4([k \in Lanes |-> <<MapReg(ir.src1 + k), MapReg(ir.src2 + k)>>])
    \o <<MapRegNoInit(ir.dest)>>
    \o For4([k \in Lanes |-> <<ReleaseSpillLock(ir.src1 + k), ReleaseSpillLock(ir.src2 + k)>>])
    \o <<ReleaseSpillLock(ir.dest)>>

\* inst.dest overlaps one of src1 or src2.
Vec4Dot_Overlap(ir) ==
    \/ (ir.dest < ir.src1 + 4 /\ ir.dest >= ir.src1)
    \/ (ir.dest < ir.src2 + 4 /\ ir.dest >= ir.src2)

\* Vec4Dot that always takes the path for a dest outside both sources.
Vec4Dot_Code_NoOverlap(ir) ==
    <<FMUL(R(ir.dest), R(ir.src1), R(ir.src2)),
      FMADD(R(ir.dest), R(ir.src1 + 1), R(ir.src2 + 1), R(ir.dest)),
      FMADD(R(ir.dest), R(ir.src1 + 2), R(ir.src2 + 2), R(ir.dest)),
      FMADD(R(ir.dest), R(ir.src1 + 3), R(ir.src2 + 3), R(ir.dest))>>

Vec4Dot_Code(ir) ==
    IF Vec4Dot_Overlap(ir)
    THEN For4([k \in Lanes |-> IF ir.dest = ir.src1 + k \/ ir.dest = ir.src2 + k
                         THEN <<FMUL(R(ir.dest), R(ir.src1 + k), R(ir.src2 + k))>>
                         ELSE <<>>])
         \o For4([k \in Lanes |-> IF ir.dest # ir.src1 + k /\ ir.dest # ir.src2 + k
                            THEN <<FMADD(R(ir.dest), R(ir.src1 + k), R(ir.src2 + k), R(ir.dest))>>
                            ELSE <<>>])
    ELSE <<FMUL(R(ir.dest), R(ir.src1), R(ir.src2)),
           FMADD(R(ir.dest), R(ir.src1 + 1), R(ir.src2 + 1), R(ir.dest)),
           FMADD(R(ir.dest), R(ir.src1 + 2), R(ir.src2 + 2), R(ir.dest)),
           FMADD(R(ir.dest), R(ir.src1 + 3), R(ir.src2 + 3), R(ir.dest))>>

CompIR_VecHoriz(ir) ==
    CASE ir.op = "Vec4Dot" -> Routine(Vec4Dot_Calls(ir), Vec4Dot_Code(ir), FALSE)

----------------------------------------------------------------------------
(* CompIR_VecPack                                                          *)

CompIR_Generic(ir) == Routine(<<>>, <<GENERIC(ir)>>, FALSE)

Vec4Unpack8To32_Calls(ir) ==
    <<SpillLock(ir.src1)>>
    \o For4([k \in Lanes |-> <<SpillLock(ir.dest + k)>>])
    \o <<MapReg(ir.src1)>>
    \o For4([k \in Lanes |-> <<MapRegNoInit(ir.dest + k)>>])
    \o <<ReleaseSpillLocksAndDiscardTemps>>

Vec4Unpack8To32_Code(ir) ==
    <<FMV_X_W("SCRATCH2", R(ir.src1))>>
    \o For4([k \in Lanes |->
              (IF k # 0
               THEN <<SRLI("SCRATCH1", "SCRATCH2", k * 8), SLLI("SCRATCH1", "SCRATCH1", 24)>>
               ELSE <<SLLI("SCRATCH1", "SCRATCH2", 24)>>)
              \o <<FMV_W_X(R(ir.dest + k), "SCRATCH1")>>])

Vec4DuplicateUpperBitsAndShift1_Code(ir) ==
    For4([k \in Lanes |->
           <<FMV_X_W("SCRATCH1", R(ir.src1 + k)),
             SRLIW("SCRATCH2", "SCRATCH1", 8),
             OR("SCRATCH1", "SCRATCH1", "SCRATCH2"),
             SRLIW("SCRATCH2", "SCRATCH1", 16),
             OR("SCRATCH1", "SCRATCH1", "SCRATCH2"),
             SRLIW("SCRATCH1", "SCRATCH1", 1),
             FMV_W_X(R(ir.dest + k), "SCRATCH1")>>])

Vec4Pack31To8_Calls(ir) ==
    <<SpillLock(ir.dest)>>
    \o For4([k \in Lanes |-> <<SpillLock(ir.src1 + k), MapReg(ir.src1 + k)>>])
    \o <<MapRegNoInit(ir.dest)>>
    \o <<ReleaseSpillLocksAndDiscardTemps>>

\* Vec4Pack31To8 that takes bits 24..31 of each lane instead of bits 23..30.
Vec4Pack31To8_Code_Shift24(ir) ==
    For4([k \in Lanes |->
           <<FMV_X_W("SCRATCH1", R(ir.src1 + k)), SRLI("SCRATCH1", "SCRATCH1", 24)>>
           \o (IF k = 0
               THEN <<ANDI("SCRATCH2", "SCRATCH1", 255)>>
               ELSE <<ANDI("SCRATCH1", "SCRATCH1", 255),
                      SLLI("SCRATCH1", "SCRATCH1", 8 * k),
                      OR("SCRATCH2", "SCRATCH2", "SCRATCH1")>>)])
    \o <<FMV_W_X(R(ir.dest), "SCRATCH2")>>

Vec4Pack31To8_Code(ir) ==
    For4([k \in Lanes |->
           <<FMV_X_W("SCRATCH1", R(ir.src1 + k)), SRLI("SCRATCH1", "SCRATCH1", 23)>>
           \o (IF k = 0
               THEN <<ANDI("SCRATCH2", "SCRATCH1", 255)>>
               ELSE <<ANDI("SCRATCH1", "SCRATCH1", 255),
                      SLLI("SCRATCH1", "SCRATCH1", 8 * k),
                      OR("SCRATCH2", "SCRATCH2", "SCRATCH1")>>)])
    \o <<FMV_W_X(R(ir.dest), "SCRATCH2")>>

Vec2Pack32To16_Code(ir) ==
    <<FMV_X_W("SCRATCH1", R(ir.src1)),
      FMV_X_W("SCRATCH2", R(ir.src1 + 1)),
      SLLI("SCRATCH1", "SCRATCH1", XLEN - 32),
      SRLI("SCRATCH1", "SCRATCH1", XLEN - 16),
      SRLI("SCRATCH2", "SCRATCH2", 16),
      SLLI("SCRATCH2", "SCRATCH2", 16),
      OR("SCRATCH1", "SCRATCH1", "SCRATCH2"),
      FMV_W_X(R(ir.dest), "SCRATCH1")>>

CompIR_VecPack(ir) ==
    CASE ir.op \in {"Vec2Unpack16To31", "Vec2Unpack16To32", "Vec4Pack32To8",
                    "Vec2Pack31To16"} -> CompIR_Generic(ir)
      [] ir.op = "Vec4Unpack8To32" ->
            Routine(Vec4Unpack8To32_Calls(ir), Vec4Unpack8To32_Code(ir), FALSE)
      [] ir.op = "Vec4DuplicateUpperBitsAndShift1" ->
            Routine(<<Map4DirtyIn(ir.dest, ir.src1)>>,
                    Vec4DuplicateUpperBitsAndShift1_Code(ir), FALSE)
      [] ir.op = "Vec4Pack31To8" ->
            Routine(Vec4Pack31To8_Calls(ir), Vec4Pack31To8_Code(ir), FALSE)
      [] ir.op = "Vec2Pack32To16" ->
            Routine(<<MapDirtyInIn(ir.dest, ir.src1, ir.src1 + 1)>>,
                    Vec2Pack32To16_Code(ir), FALSE)

----------------------------------------------------------------------------
(* CompIR_VecClamp                                                         *)

\* Vec4ClampToZero with the operands of ANDN the wrong way round.
Vec4ClampToZero_Code_SwappedANDN(ir, hasZbb) ==
    For4([k \in Lanes |->
           <<FMV_X_W("SCRATCH1", R(ir.src1 + k)), SRAIW("SCRATCH2", "SCRATCH1", 31)>>
           \o (IF hasZbb
               THEN <<ANDN("SCRATCH1", "SCRATCH2", "SCRATCH1")>>
               ELSE <<NOT("SCRATCH2", "SCRATCH2"), AND("SCRATCH1", "SCRATCH1", "SCRATCH2")>>)
           \o <<FMV_W_X(R(ir.dest + k), "SCRATCH1")>>])

Vec4ClampToZero_Code(ir, hasZbb) ==
    For4([k \in Lanes |->
           <<FMV_X_W("SCRATCH1", R(ir.src1 + k)), SRAIW("SCRATCH2", "SCRATCH1", 31)>>
           \o (IF hasZbb
               THEN <<ANDN("SCRATCH1", "SCRATCH1", "SCRATCH2")>>
               ELSE <<NOT("SCRATCH2", "SCRATCH2"), AND("SCRATCH1", "SCRATCH1", "SCRATCH2")>>)
           \o <<FMV_W_X(R(ir.dest + k), "SCRATCH1")>>])

CompIR_VecClamp(ir, hasZbb) ==
    CASE ir.op = "Vec4ClampToZero" ->
            Routine(<<Map4DirtyIn(ir.dest, ir.src1)>>, Vec4ClampToZero_Code(ir, hasZbb), FALSE)
      [] ir.op = "Vec2ClampToZero" -> CompIR_Generic(ir)

----------------------------------------------------------------------------
(* The backend's dispatch of one IR instruction to its routine.            *)

VecAssignOps == {"Vec4Init", "Vec4Shuffle", "Vec4Blend", "Vec4Mov"}
VecArithOps == {"Vec4Add", "Vec4Sub", "Vec4Mul", "Vec4Div", "Vec4Scale", "Vec4Neg", "Vec4Abs"}
VecHorizOps == {"Vec4Dot"}
VecPackOps == {"Vec2Unpack16To31", "Vec2Unpack16To32", "Vec4Pack32To8", "Vec2Pack31To16",
               "Vec4Unpack8To32", "Vec4DuplicateUpperBitsAndShift1", "Vec4Pack31To8",
               "Vec2Pack32To16"}
VecClampOps == {"Vec4ClampToZero", "Vec2ClampToZero"}

CompIR(ir, hasZbb) ==
    CASE ir.op \in VecAssignOps -> CompIR_VecAssign(ir)
      [] ir.op \in VecArithOps -> CompIR_VecArith(ir)
      [] ir.op \in VecHorizOps -> CompIR_VecHoriz(ir)
      [] ir.op \in VecPackOps -> CompIR_VecPack(ir)
      [] ir.op \in VecClampOps -> CompIR_VecClamp(ir, hasZbb)

----------------------------------------------------------------------------
(* The register cache, as far as the routines' calls to it go: a spill-lock *)
(* count per guest register.                                                *)

RegCache_SpillLock(lk, r) == [lk EXCEPT ![r] = @ + 1]
RegCache_ReleaseSpillLock(lk, r) == [lk EXCEPT ![r] = IF @ > 0 THEN @ - 1 ELSE 0]
RegCache_ReleaseSpillLocksAndDiscardTemps(lk) == [r \in Regs |-> 0]

----------------------------------------------------------------------------
(* Actions                                                                 *)

\* The backend starts the routine of the next IR instruction of the block.
CompileIRInst ==
    /\ pc = "idle"
    /\ irIndex <= Len(block)
    /\ inst' = block[irIndex]
    /\ irIndex' = irIndex + 1
    /\ pc' = "routine"
    /\ calls' = CompIR(block[irIndex], zbb).calls
    /\ mapIssued' = FALSE
    /\ peak' = 0
    /\ i' = 0
    /\ state' = StateInit
    /\ goal' = IF InPlaceShuffle(block[irIndex]) THEN Goal(block[irIndex].src2) ELSE StateInit
    /\ chains' = <<>>
    /\ UNCHANGED <<block, lock, lockAfterMap, badRelease, code, ip, f, f0, x, written,
                   zbb, assertFailed>>

\* The routine makes its next call to the register cache.
FprCall ==
    /\ pc = "routine"
    /\ calls # <<>>
    /\ LET c == Head(calls)
           lk == CASE c.fn = "SpillLock" -> RegCache_SpillLock(lock, c.args[1])
                   [] c.fn = "ReleaseSpillLock" -> RegCache_ReleaseSpillLock(lock, c.args[1])
                   [] c.fn = "ReleaseSpillLocksAndDiscardTemps" ->
                         RegCache_ReleaseSpillLocksAndDiscardTemps(lock)
                   [] OTHER -> lock
       IN /\ lock' = lk
          /\ peak' = IF c.fn = "SpillLock" /\ lk[c.args[1]] > peak
                     THEN lk[c.args[1]] ELSE peak
          /\ badRelease' = (badRelease \/ (c.fn = "ReleaseSpillLock" /\ lock[c.args[1]] = 0))
          /\ mapIssued' = (mapIssued \/ c.fn = "MapReg")
          /\ lockAfterMap' = (lockAfterMap \/ (c.fn = "SpillLock" /\ mapIssued))
    /\ calls' = Tail(calls)
    /\ UNCHANGED <<block, irIndex, inst, pc, code, ip, f, f0, x, written, zbb, i, state, goal,
                   chains, assertFailed>>

\* The routine emits its host code and returns.
EmitCode ==
    /\ pc = "routine"
    /\ calls = <<>>
    /\ ~CompIR(inst, zbb).loop
    /\ code' = code \o CompIR(inst, zbb).code
    /\ pc' = "idle"
    /\ UNCHANGED <<block, irIndex, inst, calls, lock, peak, mapIssued, lockAfterMap, badRelease,
                   ip, f, f0, x, written, zbb, i, state, goal, chains, assertFailed>>

\* One iteration of the in-place Vec4Shuffle loop; the routine returns
\* after the fourth.
ShuffleInPlaceIter ==
    /\ pc = "routine"
    /\ calls = <<>>
    /\ CompIR(inst, zbb).loop
    /\ i < 4
    /\ IF goal[i] = state[i]
       THEN /\ i' = i + 1
            /\ pc' = IF i + 1 < 4 THEN "routine" ELSE "idle"
            /\ UNCHANGED <<state, code, chains, assertFailed>>
       ELSE IF findIndex(state, goal[i], 0) = NOT_FOUND
            THEN /\ assertFailed' = TRUE
                 /\ pc' = "crash"
                 /\ UNCHANGED <<i, state, code, chains>>
            ELSE LET ch == ShuffleChain(state, goal, i)
                     mv == moveChained(state, inst.dest, ch.lanes, ch.rotate)
                 IN /\ state' = mv.state
                    /\ code' = code \o mv.code
                    /\ chains' = Append(chains, [lanes |-> ch.lanes, rotate |-> ch.rotate,
                                                 at |-> i])
                    /\ i' = i + 1
                    /\ pc' = IF i + 1 < 4 THEN "routine" ELSE "idle"
                    /\ UNCHANGED assertFailed
    /\ UNCHANGED <<block, irIndex, inst, calls, lock, peak, mapIssued, lockAfterMap, badRelease,
                   ip, f, f0, x, written, zbb, goal>>

\* The host executes the next instruction of the compiled block.
ExecStep ==
    /\ pc = "idle"
    /\ irIndex > Len(block)
    /\ ip <= Len(code)
    /\ LET m == Step([f |-> f, x |-> x], code[ip])
       IN /\ f' = m.f
          /\ x' = m.x
    /\ written' = written \cup FWrites(code[ip])
    /\ ip' = ip + 1
    /\ UNCHANGED <<block, irIndex, inst, pc, calls, lock, peak, mapIssued, lockAfterMap,
                   badRelease, code, f0, zbb, i, state, goal, chains, assertFailed>>

----------------------------------------------------------------------------
(* Initial states                                                          *)

\* Distinct numbers in all float registers.
IntRegs == [r \in FRegs |-> 2 * r + 3]

\* A 32-bit pattern with lowest byte b and the next bytes 85*s apart.
Pattern(b, s) == WordOfBytes([j \in 0..3 |-> (b + j * s * 85) % 256])

\* Bit patterns in all float registers, a different one in each.
BitRegs(b, s) == [r \in FRegs |-> Pattern((b + 37 * r) % 256, s)]

InitWith(blk, regs, hasZbb) ==
    /\ block = blk
    /\ irIndex = 1
    /\ inst = IRInst("none", 0, 0, 0, 0)
    /\ pc = "idle"
    /\ calls = <<>>
    /\ lock = [r \in Regs |-> 0]
    /\ peak = 0
    /\ mapIssued = FALSE
    /\ lockAfterMap = FALSE
    /\ badRelease = FALSE
    /\ code = <<>>
    /\ ip = 1
    /\ f = regs
    /\ f0 = regs
    /\ x = [r \in XRegs |-> Zero64]
    /\ written = {}
    /\ zbb = hasZbb
    /\ i = 0
    /\ state = StateInit
    /\ goal = StateInit
    /\ chains = <<>>
    /\ assertFailed = FALSE

Vec4ShuffleInsts == {IRInst("Vec4Shuffle", d, s, imm, 0) : d \in Bases, s \in Bases, imm \in 0..255}
Vec4BlendInsts ==
    UNION {{IRInst("Vec4Blend", d, s, t, mask) : d \in Bases, s \in Bases, t \in Bases} :
           mask \in 0..15}
Vec4DotInsts == {IRInst("Vec4Dot", d, s, t, 0) : d \in Regs, s \in Bases, t \in Bases}

InitShuffle == \E ir \in Vec4ShuffleInsts : InitWith(<<ir>>, IntRegs, FALSE)
InitBlend == \E ir \in Vec4BlendInsts : InitWith(<<ir>>, IntRegs, FALSE)
InitDot == \E ir \in Vec4DotInsts : InitWith(<<ir>>, IntRegs, FALSE)

\* Unpack register src into the group at mid, then pack that group into dst.
InitPack ==
    \E b \in 0..255, s \in 0..MaxStep, src \in 0..1, mid \in 0..1, dst \in 0..1 :
        InitWith(<<IRInst("Vec4Unpack8To32", mid, src, 0, 0),
                   IRInst("Vec4Pack31To8", dst, mid, 0, 0)>>, BitRegs(b, s), FALSE)

InitClamp ==
    \E b \in 0..255, s \in 0..MaxStep, d \in {0, 4}, s1 \in 0..1, hasZbb \in BOOLEAN :
        InitWith(<<IRInst("Vec4ClampToZero", d, s1, 0, 0)>>, BitRegs(b, s), hasZbb)

Vec4InitKinds == {"AllZERO", "AllONE", "AllMinusONE", "Set_1000", "Set_0100",
                  "Set_0010", "Set_0001"}

\* Every vector opcode with every choice of operands; the immediates of
\* Vec4Shuffle and Vec4Blend are covered by their own sets above.
VecInsts ==
    {IRInst("Vec4Init", d, k, 0, 0) : d \in Bases, k \in Vec4InitKinds}
    \cup Vec4ShuffleInsts
    \cup Vec4BlendInsts
    \cup Vec4DotInsts
    \cup UNION {{IRInst(op, d, s, 0, 0) : d \in Bases, s \in Bases} :
                op \in {"Vec4Mov", "Vec4Neg", "Vec4Abs", "Vec4ClampToZero",
                        "Vec4DuplicateUpperBitsAndShift1"}}
    \cup UNION {{IRInst(op, d, s, t, 0) : d \in Bases, s \in Bases, t \in Bases} :
                op \in {"Vec4Add", "Vec4Sub", "Vec4Mul", "Vec4Div"}}
    \cup {IRInst("Vec4Scale", d, s, t, 0) : d \in Bases, s \in Bases, t \in Regs}
    \cup {IRInst("Vec4Unpack8To32", d, s, 0, 0) : d \in Bases, s \in Regs}
    \cup {IRInst("Vec4Pack31To8", d, s, 0, 0) : d \in Regs, s \in Bases}
    \cup {IRInst("Vec2Pack32To16", d, s, 0, 0) : d \in Regs, s \in 0..(MaxReg - 1)}
    \cup UNION {{IRInst(op, d, s, 0, 0) : d \in Regs, s \in Regs} :
                op \in {"Vec2Unpack16To31", "Vec2Unpack16To32", "Vec4Pack32To8",
                        "Vec2Pack31To16", "Vec2ClampToZero"}}

InitCompile == \E ir \in VecInsts, hasZbb \in BOOLEAN : InitWith(<<ir>>, IntRegs, hasZbb)

----------------------------------------------------------------------------
(* Specifications                                                          *)

NextRun == CompileIRInst \/ FprCall \/ EmitCode \/ ExecStep
NextShuffle == NextRun \/ ShuffleInPlaceIter
NextCompile == CompileIRInst \/ FprCall \/ EmitCode \/ ShuffleInPlaceIter

SpecShuffle == InitShuffle /\ [][NextShuffle]_vars
SpecBlend == InitBlend /\ [][NextRun]_vars
SpecDot == InitDot /\ [][NextRun]_vars
SpecPack == InitPack /\ [][NextRun]_vars
SpecClamp == InitClamp /\ [][NextRun]_vars
SpecCompile == InitCompile /\ [][NextCompile]_vars

\* The block is compiled and its code has run to the end.
Done == pc = "idle" /\ irIndex > Len(block) /\ ip > Len(code)

----------------------------------------------------------------------------
(* Properties                                                              *)

\* The 4-lane groups starting at a and b share no register.
Disjoint4(a, b) == a + 4 <= b \/ b + 4 <= a

\* Moves between two destination lanes, into tempReg and out of tempReg.
NumLaneMoves(cs) ==
    Cardinality({k \in 1..Len(cs) : cs[k].op = "FMV.S" /\ cs[k].rd # TempReg
                                     /\ cs[k].rs1 # TempReg})
NumTempIn(cs) == Cardinality({k \in 1..Len(cs) : cs[k].op = "FMV.S" /\ cs[k].rd = TempReg})
NumTempOut(cs) == Cardinality({k \in 1..Len(cs) : cs[k].op = "FMV.S" /\ cs[k].rs1 = TempReg})
NumFMV(cs) == Cardinality({k \in 1..Len(cs) : cs[k].op = "FMV.S"})

\* The in-place shuffle routine has returned.
InPlaceReturned == pc = "idle" /\ InPlaceShuffle(inst)

\* C1: Vec4Shuffle, in place (dest = src1) or with disjoint groups: once
\* the emitted FMVs have run, destination lane k holds what source lane
\* ((imm >> 2k) & 3) held before; in place, state[] equals goal[] when the
\* loop has ended.
C1_ShuffleCorrect ==
    /\ (Done /\ inst.op = "Vec4Shuffle"
          /\ (inst.dest = inst.src1 \/ Disjoint4(inst.dest, inst.src1)))
       => \A k \in Lanes : f[inst.dest + k] = f0[inst.src1 + ((inst.src2 \div (4 ^ k)) % 4)]
    /\ InPlaceReturned => (i = 4 /\ state = goal)

\* An in-place shuffle that needed two rotations through tempReg has run.
C1_Witness ==
    /\ Done
    /\ InPlaceShuffle(inst)
    /\ NumTempIn(code) = 2
    /\ \E k \in Lanes : f[inst.dest + k] # f0[inst.dest + k]

\* C2: Vec4Dot with src1 and src2 groups identical or disjoint and any
\* dest: once the code has run, dest holds the sum of the four products of
\* the lane values held before, and no FMUL/FMADD multiplies a register
\* that the code has already written.
C2_DotCorrect ==
    (inst.op = "Vec4Dot" /\ (inst.src1 = inst.src2 \/ Disjoint4(inst.src1, inst.src2)))
    => /\ Done => f[inst.dest] = f0[inst.src1] * f0[inst.src2]
                                 + f0[inst.src1 + 1] * f0[inst.src2 + 1]
                                 + f0[inst.src1 + 2] * f0[inst.src2 + 2]
                                 + f0[inst.src1 + 3] * f0[inst.src2 + 3]
       /\ (pc = "idle" /\ ip <= Len(code))
          => (code[ip].rs1 \notin written /\ code[ip].rs2 \notin written)

\* A dot product whose destination is lane 2 of src2 has run.
C2_Witness ==
    /\ Done
    /\ inst.op = "Vec4Dot"
    /\ Disjoint4(inst.src1, inst.src2)
    /\ inst.dest = inst.src2 + 2
    /\ f[inst.dest] # f0[inst.dest]

\* C3 as stated: unpacking a word with Vec4Unpack8To32 and packing the four
\* lanes with Vec4Pack31To8 gives back the original 32-bit pattern.
C3_RoundTripExact ==
    (Done /\ inst.op = "Vec4Pack31To8") => f[inst.dest] = f0[block[1].src1]

\* C3 amended: the round trip yields the word whose byte j is twice byte j
\* of the original, modulo 256.
C3_RoundTripDoubles ==
    (Done /\ inst.op = "Vec4Pack31To8")
    => \A j \in 0..3 : ByteOf(f[inst.dest], j) = (2 * ByteOf(f0[block[1].src1], j)) % 256

\* A round trip of a word with a byte above 127 and a byte below 128.
C3_Witness ==
    /\ Done
    /\ inst.op = "Vec4Pack31To8"
    /\ \E j \in 0..3 : ByteOf(f0[block[1].src1], j) > 127
    /\ \E j \in 0..3 : ByteOf(f0[block[1].src1], j) \in 1..127
    /\ f[inst.dest] # f0[block[1].src1]

\* C4: Vec4ClampToZero writes the all-zero pattern for a lane whose bit 31
\* is set and the lane unchanged otherwise, and the ANDN sequence and the
\* NOT/AND sequence leave the same float registers.
C4_ClampCorrect ==
    (Done /\ inst.op = "Vec4ClampToZero")
    => /\ (inst.dest = inst.src1 \/ Disjoint4(inst.dest, inst.src1))
          => \A k \in Lanes :
                f[inst.dest + k] = IF f0[inst.src1 + k][31] = 1 THEN Zero32
                                   ELSE f0[inst.src1 + k]
       /\ Run([f |-> f0, x |-> [r \in XRegs |-> Zero64]],
              Vec4ClampToZero_Code(inst, ~zbb)).f = f

\* A clamp has run on a vector with a negative and a positive lane.
C4_Witness ==
    /\ Done
    /\ inst.op = "Vec4ClampToZero"
    /\ Disjoint4(inst.dest, inst.src1)
    /\ \E k \in Lanes : f0[inst.src1 + k][31] = 1 /\ f[inst.dest + k] = Zero32
    /\ \E k \in Lanes : f0[inst.src1 + k][31] = 0 /\ f[inst.dest + k] # Zero32

\* C5: Vec4Blend with each source group equal to or disjoint from the
\* destination group: once the four FMVs have run, destination lane k holds
\* the earlier value of src2 lane k when bit k of the mask is 1 and of src1
\* lane k when it is 0.
C5_BlendCorrect ==
    (Done /\ inst.op = "Vec4Blend"
       /\ (inst.dest = inst.src1 \/ Disjoint4(inst.dest, inst.src1))
       /\ (inst.dest = inst.src2 \/ Disjoint4(inst.dest, inst.src2)))
    => \A k \in Lanes :
          f[inst.dest + k] = f0[(IF (inst.constant \div (2 ^ k)) % 2 = 1
                                 THEN inst.src2 ELSE inst.src1) + k]

\* A blend into its own first source, taking lanes from both sources.
C5_Witness ==
    /\ Done
    /\ inst.op = "Vec4Blend"
    /\ inst.dest = inst.src1
    /\ Disjoint4(inst.dest, inst.src2)
    /\ inst.constant = 5
    /\ f[inst.dest] = f0[inst.src2]

\* C6 as stated: the in-place shuffle emits at most 3 lane-to-lane moves
\* and at most 1 round trip through tempReg.
C6_ThreeMovesOneTrip ==
    InPlaceShuffle(inst)
    => (NumLaneMoves(code) <= 3 /\ NumTempIn(code) <= 1 /\ NumTempOut(code) <= 1)

\* C6 amended: the in-place shuffle emits at most 4 lane-to-lane moves and
\* at most 2 round trips through tempReg, each move into tempReg paired
\* with one move out of it.
C6_FourMovesTwoTrips ==
    InPlaceShuffle(inst)
    => /\ NumLaneMoves(code) <= 4
       /\ NumTempIn(code) <= 2
       /\ NumTempOut(code) <= 2
       /\ (pc = "idle" => NumTempIn(code) = NumTempOut(code))

\* An in-place shuffle has emitted two swaps through tempReg.
C6_Witness ==
    /\ InPlaceReturned
    /\ NumTempIn(code) = 2
    /\ NumTempOut(code) = 2
    /\ NumLaneMoves(code) = 2

\* C7: when a routine has returned every spill-lock count is zero, and no
\* release was issued for a lock that was not held.
C7_LocksReleased ==
    /\ pc = "idle" => \A r \in Regs : lock[r] = 0
    /\ ~badRelease

\* Vec4Dot with dest a lane of both sources has returned, having held
\* several locks on one register.
C7_Witness ==
    /\ pc = "idle"
    /\ inst.op = "Vec4Dot"
    /\ inst.dest = inst.src1
    /\ inst.src1 = inst.src2
    /\ peak = 3
    /\ code # <<>>

\* C8: within one routine no fpr.SpillLock call follows a fpr.MapReg call.
C8_LocksBeforeMaps == ~lockAfterMap

\* Lanes a moveChained call writes.
ChainWrites(c) ==
    {c.lanes[k] : k \in 1..(Len(c.lanes) - 1)}
    \cup (IF c.rotate THEN {c.lanes[Len(c.lanes)]} ELSE {})

\* C9: in the in-place loop the assertion never fires: every lane from i on
\* that is not yet correct finds its goal in state[], the lanes below i are
\* final, and no chained move writes a lane below the iteration it ran in.
C9_LoopInvariant ==
    /\ ~assertFailed
    /\ (pc = "routine" /\ InPlaceShuffle(inst) /\ calls = <<>>)
       => /\ \A j \in i..3 : goal[j] # state[j] => findIndex(state, goal[j], 0) # NOT_FOUND
          /\ \A j \in 0..(i - 1) : state[j] = goal[j]
    /\ \A n \in 1..Len(chains) : \A w \in ChainWrites(chains[n]) : w >= chains[n].at

\* A later iteration that has to move a lane after an earlier chained move.
C9_Witness ==
    /\ pc = "routine"
    /\ InPlaceShuffle(inst)
    /\ calls = <<>>
    /\ i >= 1
    /\ chains # <<>>
    /\ goal[i] # state[i]

\* C10: the in-place shuffle emits at most 6 FMVs.
C10_AtMostSixFMVs == InPlaceShuffle(inst) => NumFMV(code) <= 6

\* An in-place shuffle that emitted exactly 6 FMVs.
C10_Witness == InPlaceReturned /\ NumFMV(code) = 6 /\ Len(code) = 6

====
